---- MODULE Spec2Model ----
(***************************************************************************)
(* Verification model of the tool-augmented dispatch loop and of the       *)
(* delegation protocol of the Mimi repository.                            *)
(*                                                                         *)
(*   SpecLoop  : _chat_with_tools (claudebot/web/server/app.py) driven by  *)
(*               the SMS entry point _sms_chat and the web entry point     *)
(*               chat, against an arbitrary completion provider.           *)
(*   SpecAgent : PrimaryAgent.chat over BaseAgent.chat (agents/), the      *)
(*               delegation router with its specialist cache.              *)
(*   SpecTelegram : the same loop entered from handle_text                 *)
(*               (claudebot/web/server/telegram_bot.py).                   *)
(*   SpecStore : the session stores over many turns: _sms_chat and the     *)
(*               Telegram handlers as whole turns, with their resets.      *)
(*   SpecApi   : the sessions of api_server.py, one PrimaryAgent each,      *)
(*               with /api/chat and /api/reset as whole requests.          *)
(*   SpecTerminal : SpecAgent with the terminal's Ctrl-C.                  *)
(*   SpecFactory : AgentFactory's agents and chat sessions.                *)
(*   SpecConc  : two Flask request threads in _sms_chat for one phone.     *)
(*                                                                         *)
(* Python strings are TLA+ strings; an f-string or a str.join is the tuple *)
(* of its pieces, so "Tool 'x' not available." is <<"Tool '", "x", ...>>.  *)
(* A dict is a record whose DOMAIN is exactly the keys the code sets.      *)
(***************************************************************************)
EXTENDS Integers, Sequences, FiniteSets, TLC

VARIABLES
    sms_history,   \* app.py sms_history: phone -> list of messages
    history,       \* app.py history: the web conversation
    lpc,           \* position of the running channel handler
    chan,          \* which entry point runs: "sms" or "web"
    phone,         \* the phone argument of the running _sms_chat
    uid,           \* the uid of the running Telegram handler
    messages,      \* the working list handed to _chat_with_tools
    response,      \* the provider response held by _chat_with_tools
    round,         \* completed iterations of `for _ in range(5)`
    calls,         \* provider calls made in this turn
    lastSent,      \* the messages argument of the latest provider call
    executed,      \* handler invocations of this turn, in order
    reply,         \* the reply of the finished turn
    outcome,       \* how the turn ended: "final", "budget", "error"
    turns,         \* turns started so far
    conversation_history, \* PrimaryAgent.agent.conversation_history
    specialized_agents,   \* PrimaryAgent.specialized_agents: type -> history
    apc,           \* position in PrimaryAgent.chat
    who,           \* the agent that runs BaseAgent.chat: "primary" or a type
    iteration,     \* completed tool iterations of the running BaseAgent.chat
    bpc,           \* position in the running BaseAgent.chat
    resp,          \* response of the running BaseAgent.chat
    primary_response,     \* PrimaryAgent.chat: primary_response
    specialist_response,  \* PrimaryAgent.chat: specialist_response
    delegation,    \* PrimaryAgent.chat: delegation
    result,        \* the dict PrimaryAgent.chat returned
    raised,        \* the exception that left PrimaryAgent.chat, or "none"
    spec_inputs,   \* the specialist.chat calls of this turn
    acalls,        \* model calls made so far
    user_histories, \* telegram_bot.py user_histories: uid -> list of messages
    sent,          \* the list the latest whole turn handed to the tool loop
    sessions,      \* api_server.py sessions: session id -> PrimaryAgent
    registry,      \* AgentRegistry._agents: the agent ids created so far
    factory_sessions, \* AgentFactory._sessions: key -> list of messages
    fturns,        \* AgentFactory.chat calls answered so far
    threads        \* the Flask request threads that run _sms_chat

loopVars == <<sms_history, history, lpc, chan, phone, uid, messages, response,
              round, calls, lastSent, executed, reply, outcome, turns>>
agentVars == <<conversation_history, specialized_agents, apc, who, iteration,
               bpc, resp, primary_response, specialist_response, delegation,
               result, raised, spec_inputs, acalls>>
storeVars == <<user_histories, sent, sessions>>
extVars == <<registry, factory_sessions, fturns, threads>>

\* ---------------------------------------------------------------- bounds
MaxTurns == 2

\* ------------------------------------------------------------- constants
MAX_ROUNDS == 5
SMS_MAX_HISTORY == 30

MAX_HISTORY == 50

Phones == {"+1", "+2"}
Uids == {1, 2}
UserTexts == {"hi"}

\* ------------------------------------------------------ provider content
TextBlock(t) == [type |-> "text", text |-> t]
ToolUse(i, n, inp) == [type |-> "tool_use", id |-> i, name |-> n, input |-> inp]

\* The provider is a black box: these are the responses it may give to any
\* call.  Tool inputs: "ok" is accepted by the handler, "bad" makes it raise,
\* "fail" makes it return a dict with an error key (sms_send when Twilio
\* refuses, claude_code_dispatch without a token).
Responses ==
    { [stop_reason |-> "end_turn", content |-> <<TextBlock("42")>>],
      [stop_reason |-> "end_turn", content |-> <<>>],
      [stop_reason |-> "max_tokens",
       content |-> <<TextBlock("42"), ToolUse("t1", "web_search", "ok")>>],
      [stop_reason |-> "tool_use",
       content |-> <<TextBlock("partial"), ToolUse("t1", "web_search", "ok")>>],
      [stop_reason |-> "tool_use",
       content |-> <<ToolUse("t1", "web_search", "bad"),
                     ToolUse("t2", "nonexistent", "ok"),
                     ToolUse("t3", "sms_send", "fail")>>] }

NoResponse == [stop_reason |-> "none", content |-> <<>>]

\* ------------------------------------------------------------ tool table
\* TOOL_HANDLERS: the names that have a handler.
TOOL_HANDLERS == {"web_search", "sms_send"}

\* The tools list passed to the provider: _chat_with_tools offers every
\* tool that has a handler, _achat_with_tools the web tools only.
Tools(c) == IF c = "telegram" THEN {"web_search"} ELSE TOOL_HANDLERS

\* handler(**tool_input): the value it returns, or the exception it raises.
Handler(name, input) ==
    IF input = "bad"
    THEN [raises |-> TRUE, value |-> "TypeError"]
    ELSE IF input = "fail"
    THEN [raises |-> FALSE, value |-> "error"]
    ELSE [raises |-> FALSE, value |-> name]

\* The tool_result dict appended for one tool_use block.
ToolResultUnnamed(block) ==
    IF block.name \in TOOL_HANDLERS
    THEN LET r == Handler(block.name, block.input)
         IN  IF r.raises
             THEN [type |-> "tool_result", tool_use_id |-> block.id,
                   content |-> <<"Error: ", r.value>>, is_error |-> TRUE]
             ELSE [type |-> "tool_result", tool_use_id |-> block.id,
                   content |-> <<"json", r.value>>]
    ELSE [type |-> "tool_result", tool_use_id |-> block.id,
          content |-> <<"Error: ", "KeyError">>, is_error |-> TRUE]

ToolResultMissingFlag(block) ==
    IF block.name \in TOOL_HANDLERS
    THEN LET r == Handler(block.name, block.input)
         IN  [type |-> "tool_result", tool_use_id |-> block.id,
              content |-> IF r.raises THEN <<"Error: ", r.value>>
                          ELSE <<"json", r.value>>]
    ELSE [type |-> "tool_result", tool_use_id |-> block.id,
          content |-> <<"Tool '", block.name, "' not available.">>,
          is_error |-> TRUE]

ToolResultFlagsFailure(block) ==
    IF block.name \in TOOL_HANDLERS
    THEN LET r == Handler(block.name, block.input)
         IN  IF r.raises \/ r.value = "error"
             THEN [type |-> "tool_result", tool_use_id |-> block.id,
                   content |-> <<"Error: ", r.value>>, is_error |-> TRUE]
             ELSE [type |-> "tool_result", tool_use_id |-> block.id,
                   content |-> <<"json", r.value>>]
    ELSE [type |-> "tool_result", tool_use_id |-> block.id,
          content |-> <<"Tool '", block.name, "' not available.">>,
          is_error |-> TRUE]

ToolResult(block) ==
    IF block.name \in TOOL_HANDLERS
    THEN LET r == Handler(block.name, block.input)
         IN  IF r.raises
             THEN [type |-> "tool_result", tool_use_id |-> block.id,
                   content |-> <<"Error: ", r.value>>, is_error |-> TRUE]
             ELSE [type |-> "tool_result", tool_use_id |-> block.id,
                   content |-> <<"json", r.value>>]
    ELSE [type |-> "tool_result", tool_use_id |-> block.id,
          content |-> <<"Tool '", block.name, "' not available.">>,
          is_error |-> TRUE]

IsToolUse(b) == b.type = "tool_use"
ToolUses(content) == SelectSeq(content, IsToolUse)

\* tool_results after `for block in assistant_content`.
ToolResultsDropUnknown(content) ==
    LET tu == SelectSeq(content, LAMBDA b : b.type = "tool_use"
                                           /\ b.name \in TOOL_HANDLERS)
    IN  [i \in 1..Len(tu) |-> ToolResult(tu[i])]

ToolResults(content) ==
    LET tu == ToolUses(content)
    IN  [i \in 1..Len(tu) |-> ToolResult(tu[i])]

\* The handler calls the for loop makes, in order.
IsHandled(b) == b.type = "tool_use" /\ b.name \in TOOL_HANDLERS
Invocations(content, rnd) ==
    LET hs == SelectSeq(content, IsHandled)
    IN  [i \in 1..Len(hs) |-> [round |-> rnd, id |-> hs[i].id,
                               name |-> hs[i].name, input |-> hs[i].input]]

\* text_parts / "\n".join(text_parts) if text_parts else "Done."
IsText(b) == "text" \in DOMAIN b
TextParts(content) ==
    LET ts == SelectSeq(content, IsText)
    IN  [i \in 1..Len(ts) |-> ts[i].text]
ExtractTextOpaque(content) == <<"Done.">>

ExtractText(content) ==
    IF TextParts(content) # <<>> THEN TextParts(content) ELSE <<"Done.">>

\* `for _ in range(5)` with `if response.stop_reason != "tool_use": break`.
LoopContinuesUnbounded(rnd, r) == r.stop_reason = "tool_use"
LoopContinues(rnd, r) == rnd < MAX_ROUNDS /\ r.stop_reason = "tool_use"

\* sms_history[phone][-SMS_MAX_HISTORY:] when longer than SMS_MAX_HISTORY.
LastNFirst(s, n) == IF Len(s) > n THEN SubSeq(s, 1, n) ELSE s
LastN(s, n) == IF Len(s) > n THEN SubSeq(s, Len(s) - n + 1, Len(s)) ELSE s

\* _build_messages: history entries in the provider's message format.
BuildMessages(h) ==
    [i \in 1..Len(h) |->
        [role |-> IF h[i].role = "user" THEN "user" ELSE "assistant",
         content |-> IF "api_content" \in DOMAIN h[i]
                     THEN h[i].api_content ELSE h[i].content]]

\* ------------------------------------------------------------------ Init
InitLoop ==
    /\ sms_history = [p \in Phones |-> <<>>]
    /\ history = <<>>
    /\ lpc = "idle"
    /\ chan = "none"
    /\ phone = "none"
    /\ uid = 0
    /\ messages = <<>>
    /\ response = NoResponse
    /\ round = 0
    /\ calls = 0
    /\ lastSent = <<>>
    /\ executed = <<>>
    /\ reply = <<>>
    /\ outcome = "none"
    /\ turns = 0

StartTurn ==
    /\ lpc \in {"idle", "done"}
    /\ turns < MaxTurns
    /\ turns' = turns + 1
    /\ lpc' = "call"
    /\ response' = NoResponse
    /\ round' = 0
    /\ calls' = 0
    /\ lastSent' = <<>>
    /\ executed' = <<>>
    /\ reply' = <<>>
    /\ outcome' = "none"

\* _sms_chat up to the call of _chat_with_tools.
SmsChat(p, text) ==
    /\ UNCHANGED <<extVars, agentVars, storeVars>>
    /\ StartTurn
    /\ chan' = "sms"
    /\ phone' = p
    /\ uid' = 0
    /\ LET h == LastN(Append(sms_history[p], [role |-> "user", content |-> text]),
                      SMS_MAX_HISTORY)
       IN  /\ sms_history' = [sms_history EXCEPT ![p] = h]
           /\ messages' = h
    /\ UNCHANGED history

\* chat (/api/chat) up to the call of _chat_with_tools.
WebChat(text) ==
    /\ UNCHANGED <<extVars, agentVars, storeVars>>
    /\ StartTurn
    /\ chan' = "web"
    /\ phone' = "none"
    /\ uid' = 0
    /\ LET h == Append(history, [role |-> "user", content |-> text,
                                 api_content |-> <<TextBlock(text)>>])
       IN  /\ history' = h
           /\ messages' = BuildMessages(h)
    /\ UNCHANGED sms_history

\* handle_text up to the call of _achat_with_tools.
TgChat(u, text) ==
    /\ UNCHANGED <<extVars, agentVars, sent, sessions>>
    /\ StartTurn
    /\ chan' = "telegram"
    /\ phone' = "none"
    /\ uid' = u
    /\ LET hist == Append(user_histories[u], [role |-> "user", content |-> text])
       IN  /\ user_histories' = [user_histories EXCEPT
                                    ![u] = LastN(hist, MAX_HISTORY)]
           /\ messages' = hist
    /\ UNCHANGED <<sms_history, history>>

\* hist of the running Telegram handler: the list it copied for the tool
\* loop, which the loop's working messages start with.  When _trim_history
\* cut it (it was longer than MAX_HISTORY) user_histories[uid] is another
\* list and hist.append no longer reaches the stored history.
Hist0 == SubSeq(messages, 1, Len(messages) - 2 * round)

\* The reply is stored by the entry point that runs.
StoreReplyUnlessError(r) ==
    /\ IF r[1] \in {"Something went sideways: ",
                    "[LINK ERROR] Something went sideways: "}
       THEN UNCHANGED <<sms_history, history, user_histories>>
       ELSE IF chan = "sms"
       THEN /\ sms_history' = [sms_history EXCEPT
                   ![phone] = Append(@, [role |-> "assistant", content |-> r])]
            /\ UNCHANGED <<history, user_histories>>
       ELSE IF chan = "telegram"
       THEN /\ user_histories' = [user_histories EXCEPT
                   ![uid] = IF Len(Hist0) > MAX_HISTORY THEN @
                            ELSE LastN(Append(Hist0, [role |-> "assistant",
                                                      content |-> r]),
                                       MAX_HISTORY)]
            /\ UNCHANGED <<sms_history, history>>
       ELSE /\ history' = Append(history, [role |-> "bot", content |-> r])
            /\ UNCHANGED <<sms_history, user_histories>>
    /\ reply' = r

StoreReply(r) ==
    /\ IF chan = "sms"
       THEN /\ sms_history' = [sms_history EXCEPT
                   ![phone] = Append(@, [role |-> "assistant", content |-> r])]
            /\ UNCHANGED <<history, user_histories>>
       ELSE IF chan = "telegram"
       THEN /\ user_histories' = [user_histories EXCEPT
                   ![uid] = IF Len(Hist0) > MAX_HISTORY THEN @
                            ELSE LastN(Append(Hist0, [role |-> "assistant",
                                                      content |-> r]),
                                       MAX_HISTORY)]
            /\ UNCHANGED <<sms_history, history>>
       ELSE /\ history' = Append(history, [role |-> "bot", content |-> r])
            /\ UNCHANGED <<sms_history, user_histories>>
    /\ reply' = r

\* client.messages.create returns a response.
ProviderReturn(r) ==
    /\ UNCHANGED <<extVars, agentVars, storeVars>>
    /\ lpc = "call"
    /\ response' = r
    /\ calls' = calls + 1
    /\ lastSent' = messages
    /\ lpc' = "loop"
    /\ UNCHANGED <<sms_history, history, chan, phone, uid, messages, round,
                   executed, reply, outcome, turns>>

\* client.messages.create raises: the exception leaves _chat_with_tools and
\* the entry point's except clause turns it into the reply.
ProviderRaise(e) ==
    /\ UNCHANGED <<extVars, agentVars, sent, sessions>>
    /\ lpc = "call"
    /\ calls' = calls + 1
    /\ lastSent' = messages
    /\ StoreReply(IF chan = "sms"
                  THEN <<"Something went sideways: ", e>>
                  ELSE <<"[LINK ERROR] Something went sideways: ", e>>)
    /\ outcome' = "error"
    /\ lpc' = "done"
    /\ UNCHANGED <<chan, phone, uid, messages, response, round, executed, turns>>

\* One iteration of the for loop up to the next client.messages.create.
ExecuteTools ==
    /\ UNCHANGED <<extVars, agentVars, storeVars>>
    /\ lpc = "loop"
    /\ LoopContinues(round, response)
    /\ messages' = messages \o
          << [role |-> "assistant", content |-> response.content],
             [role |-> "user", content |-> ToolResults(response.content)] >>
    /\ executed' = executed \o Invocations(response.content, round + 1)
    /\ round' = round + 1
    /\ lpc' = "call"
    /\ UNCHANGED <<sms_history, history, chan, phone, uid, response, calls,
                   lastSent, reply, outcome, turns>>

\* The loop is left: the text of the last response is returned and stored.
Finish ==
    /\ UNCHANGED <<extVars, agentVars, sent, sessions>>
    /\ lpc = "loop"
    /\ ~LoopContinues(round, response)
    /\ StoreReply(ExtractText(response.content))
    /\ outcome' = IF response.stop_reason = "tool_use" THEN "budget" ELSE "final"
    /\ lpc' = "done"
    /\ UNCHANGED <<chan, phone, uid, messages, response, round, calls, lastSent,
                   executed, turns>>

\* The locals of the finished request are gone when the next request runs.
RequestEnds ==
    /\ lpc' = "idle"
    /\ chan' = "none"
    /\ phone' = "none"
    /\ uid' = 0
    /\ messages' = <<>>
    /\ response' = NoResponse
    /\ round' = 0
    /\ calls' = 0
    /\ lastSent' = <<>>
    /\ executed' = <<>>
    /\ reply' = <<>>
    /\ outcome' = "none"

\* sms_webhook with the body "/clear", "clear history" or "reset", between
\* turns: sms_history.pop(from_number, None).
SmsReset(p) ==
    /\ UNCHANGED <<extVars, agentVars, user_histories, sessions>>
    /\ lpc \in {"idle", "done"}
    /\ sms_history' = [sms_history EXCEPT ![p] = <<>>]
    /\ sent' = <<>>
    /\ RequestEnds
    /\ UNCHANGED <<history, turns>>

\* clear_history (DELETE /api/history), between turns: history.clear().
WebClear ==
    /\ UNCHANGED <<extVars, agentVars, storeVars>>
    /\ lpc \in {"idle", "done"}
    /\ history' = <<>>
    /\ RequestEnds
    /\ UNCHANGED <<sms_history, turns>>

NextLoop ==
    \/ \E p \in Phones, t \in UserTexts : SmsChat(p, t)
    \/ \E t \in UserTexts : WebChat(t)
    \/ \E r \in Responses : ProviderReturn(r)
    \/ ProviderRaise("ProviderError")
    \/ ExecuteTools
    \/ Finish
    \/ \E p \in Phones : SmsReset(p)
    \/ WebClear

\* _achat_with_tools is _chat_with_tools with the shorter tools list: the
\* Telegram handlers run the same loop.
NextTelegram ==
    \/ \E u \in Uids, t \in UserTexts : TgChat(u, t)
    \/ \E r \in Responses : ProviderReturn(r)
    \/ ProviderRaise("ProviderError")
    \/ ExecuteTools
    \/ Finish

\* ======================================================================
\* The session stores over many turns
\* ======================================================================

\* ---------------------------------------------------------------- bounds
MaxStoreTurns == 27

\* The n-th text a user sends since the last reset is the number n, and the
\* reply to it carries the same number.
NextOrd(h) == IF h = <<>> THEN 1 ELSE h[Len(h)].content + 1

\* The turns the stored sessions go back to, all sessions together.
RECURSIVE Total(_, _)
Total(store, keys) ==
    IF keys = {} THEN 0
    ELSE LET k == CHOOSE x \in keys : TRUE
         IN  (NextOrd(store[k]) - 1) + Total(store, keys \ {k})
StoreLoad == Total(sms_history, Phones) + Total(user_histories, Uids)

\* sessions: Dict[str, PrimaryAgent] = {}
NoSessions == [x \in {} |-> <<>>]

InitStore ==
    /\ user_histories = [u \in Uids |-> <<>>]
    /\ sent = <<>>
    /\ sessions = NoSessions

\* _sms_chat from call to return: the user message is appended, the list is
\* cut to SMS_MAX_HISTORY, a copy goes to the tool loop, and the reply (the
\* loop's answer or the error text) is appended.
SmsTurn(p) ==
    /\ UNCHANGED <<extVars, agentVars>>
    /\ lpc = "idle"
    /\ StoreLoad < MaxStoreTurns
    /\ LET n == NextOrd(sms_history[p])
           h == LastN(Append(sms_history[p], [role |-> "user", content |-> n]),
                      SMS_MAX_HISTORY)
       IN  /\ sent' = h
           /\ sms_history' = [sms_history EXCEPT
                   ![p] = Append(h, [role |-> "assistant", content |-> n])]
    /\ UNCHANGED <<history, lpc, chan, phone, uid, messages, response, round,
                   calls, lastSent, executed, reply, outcome, turns>>
    /\ UNCHANGED <<user_histories, sessions>>

\* handle_text (handle_photo and handle_document store the same way) from
\* call to return; the Application runs one update at a time.  hist is the
\* list object that user_histories[uid] held when the handler started:
\* _trim_history binds user_histories[uid] to a new list when it cuts, and
\* from then on hist is no longer the stored list.
TgTurn(u) ==
    /\ UNCHANGED <<extVars, agentVars, loopVars>>
    /\ StoreLoad < MaxStoreTurns
    /\ LET n == NextOrd(user_histories[u])
           hist == Append(user_histories[u], [role |-> "user", content |-> n])
           answered == Append(hist, [role |-> "assistant", content |-> n])
       IN  /\ sent' = hist
           /\ user_histories' = [user_histories EXCEPT
                   ![u] = IF Len(hist) > MAX_HISTORY
                          THEN LastN(hist, MAX_HISTORY)
                          ELSE LastN(answered, MAX_HISTORY)]
    /\ UNCHANGED sessions

\* cmd_clear: user_histories[uid].clear().
TgClear(u) ==
    /\ UNCHANGED <<extVars, agentVars, loopVars>>
    /\ user_histories' = [user_histories EXCEPT ![u] = <<>>]
    /\ sent' = <<>>
    /\ UNCHANGED sessions

NextStore ==
    \/ \E p \in Phones : SmsTurn(p)
    \/ \E u \in Uids : TgTurn(u)
    \/ \E p \in Phones : SmsReset(p)
    \/ \E u \in Uids : TgClear(u)

\* ======================================================================
\* PrimaryAgent.chat over BaseAgent.chat (agents/)
\* ======================================================================

\* ---------------------------------------------------------------- bounds
MaxCalls == 4

\* ------------------------------------------------------------- constants
MAX_TOOL_ITERATIONS == 3

\* SpecializedAgentFactory.create_agent: the closed catalog.
Catalog == {"research", "marketing", "seo", "digital_marketing",
            "project_management", "web_development"}

\* AgentTools.list_available_tools, and the attributes getattr also finds.
RegisteredTools == {"web_search", "fetch_webpage", "execute_code",
                    "read_file", "write_file"}
Attributes == RegisteredTools \cup
              {"list_available_tools", "get_tool_descriptions", "__class__"}

\* ------------------------------------------------------- JSON and text
\* A JSON value is tagged with its type; an object is a function from its
\* keys to JSON values.  A model text is a list of lines.  A line is prose,
\* a whole JSON object ("json"), the start of an object ("open": `{` and
\* perhaps some members), more members ("members"), or `}` ("close").
JStr(x) == [t |-> "str", v |-> x]
JNum(x) == [t |-> "num", v |-> x]
JObj(x) == [t |-> "obj", v |-> x]
JNone == [t |-> "none", v |-> ""]
NoMembers == [x \in {} |-> JNone]

Prose(x) == [k |-> "prose", s |-> x, obj |-> NoMembers]
Json(o) == [k |-> "json", s |-> <<>>, obj |-> o]
Open(o) == [k |-> "open", s |-> <<>>, obj |-> o]
Members(o) == [k |-> "members", s |-> <<>>, obj |-> o]
Close == [k |-> "close", s |-> <<>>, obj |-> NoMembers]

\* dict.get(key)
Get(o, key) == IF key \in DOMAIN o THEN o[key] ELSE JNone
\* Python truth value of a JSON value
Truthy(x) == ~ \/ x.t = "none"
               \/ (x.t = "str" /\ x.v = "")
               \/ (x.t = "num" /\ x.v = "0")
               \/ (x.t = "obj" /\ x.v = "empty")

\* line.strip().startswith('{')
StartsWithBrace(l) == l.k \in {"json", "open"}
\* '"word"' in line: the double-quoted strings of the line
Quoted(l) == DOMAIN l.obj \cup
             {l.obj[key].v : key \in {x \in DOMAIN l.obj : l.obj[x].t = "str"}}

\* json.loads('\n'.join(lines[i:])) when lines[i] alone does not parse.
LoadsFromOk(lines, i) ==
    /\ lines[i].k = "open"
    /\ Len(lines) > i
    /\ lines[Len(lines)].k = "close"
    /\ \A j \in (i + 1)..(Len(lines) - 1) : lines[j].k = "members"
LoadsFromObj(lines, i) ==
    LET keys == UNION {DOMAIN lines[j].obj : j \in i..Len(lines)}
        last(key) == CHOOSE j \in i..Len(lines) :
                        /\ key \in DOMAIN lines[j].obj
                        /\ \A j2 \in i..Len(lines) :
                              key \in DOMAIN lines[j2].obj => j2 <= j
    IN  [key \in keys |-> lines[last(key)].obj[key]]

\* The object the scan obtains at line i, if any.
LoadsAtOk(lines, i) == lines[i].k = "json" \/ LoadsFromOk(lines, i)
LoadsAt(lines, i) ==
    IF lines[i].k = "json" THEN lines[i].obj ELSE LoadsFromObj(lines, i)

None == [found |-> FALSE, obj |-> NoMembers]
Some(o) == [found |-> TRUE, obj |-> o]

\* PrimaryAgent._parse_delegation
DelegationHit(lines, i) ==
    /\ StartsWithBrace(lines[i])
    /\ "action" \in Quoted(lines[i])
    /\ "delegate" \in Quoted(lines[i])
    /\ LoadsAtOk(lines, i)
    /\ Get(LoadsAt(lines, i), "action") = JStr("delegate")

ParseDelegation(lines) ==
    IF \E i \in 1..Len(lines) : DelegationHit(lines, i)
    THEN LET first == CHOOSE i \in 1..Len(lines) :
                        /\ DelegationHit(lines, i)
                        /\ \A j \in 1..(i - 1) : ~DelegationHit(lines, j)
         IN  Some(LoadsAt(lines, first))
    ELSE None

\* BaseAgent._check_for_tool_use (tools_enabled is True for every agent)
ToolHit(lines, i) ==
    /\ StartsWithBrace(lines[i])
    /\ "tool" \in Quoted(lines[i])
    /\ LoadsAtOk(lines, i)
    /\ "tool" \in DOMAIN LoadsAt(lines, i)
    /\ "parameters" \in DOMAIN LoadsAt(lines, i)

CheckForToolUse(lines) ==
    IF \E i \in 1..Len(lines) : ToolHit(lines, i)
    THEN LET first == CHOOSE i \in 1..Len(lines) :
                        /\ ToolHit(lines, i)
                        /\ \A j \in 1..(i - 1) : ~ToolHit(lines, j)
         IN  Some(LoadsAt(lines, first))
    ELSE None

\* BaseAgent._execute_tool followed by json.dumps(tool_result) in chat:
\* the tool message, or the exception that leaves BaseAgent.chat.
ExecuteTool(name, params) ==
    IF name.t # "str"
    THEN [raises |-> TRUE, exc |-> "TypeError: attribute name must be string",
          value |-> <<>>]
    ELSE IF name.v \notin Attributes
    THEN [raises |-> FALSE, exc |-> "",
          value |-> <<"error", "Tool '", name.v, "' not found">>]
    ELSE IF params.t # "obj"
    THEN [raises |-> FALSE, exc |-> "",
          value |-> <<"error", "Tool execution failed: ", "TypeError">>]
    ELSE IF name.v = "__class__"
    THEN IF params.v = "empty"
         THEN [raises |-> TRUE, exc |-> "TypeError: not JSON serializable",
               value |-> <<>>]
         ELSE [raises |-> FALSE, exc |-> "",
               value |-> <<"error", "Tool execution failed: ", "TypeError">>]
    ELSE IF name.v \in RegisteredTools /\ params.v = "empty"
    THEN [raises |-> FALSE, exc |-> "",
          value |-> <<"error", "Tool execution failed: ", "TypeError">>]
    ELSE IF name.v \notin RegisteredTools /\ params.v # "empty"
    THEN [raises |-> FALSE, exc |-> "",
          value |-> <<"error", "Tool execution failed: ", "TypeError">>]
    ELSE [raises |-> FALSE, exc |-> "", value |-> <<"result", name.v>>]

\* ---------------------------------------------------------------- texts
DelegateMarker(agent, task) ==
    [action |-> JStr("delegate"), agent |-> JStr(agent), task |-> JStr(task)]

TextPlain == << Prose(<<"hello">>) >>
TextDelegate(agent) == << Json(DelegateMarker(agent, "audit")) >>
\* the format the system prompt of the primary prescribes
TextDelegatePretty(agent) ==
    << Open(NoMembers),
       Members([action |-> JStr("delegate")]),
       Members([agent |-> JStr(agent)]),
       Members([task |-> JStr("audit")]),
       Close >>
TextDelegateNoTask ==
    << Json([action |-> JStr("delegate"), agent |-> JStr("seo")]) >>
TextTool(name, params) ==
    << Json([tool |-> name, parameters |-> JObj(params)]) >>
\* the string _chat_anthropic returns when the provider call raises
TextProviderError ==
    << Prose(<<"Error communicating with Claude: ", "ProviderError">>) >>

\* What the model may answer to any call.
ModelTexts ==
    { TextPlain,
      TextDelegate("seo"),
      TextDelegate("astrology"),
      TextDelegatePretty("seo"),
      TextDelegatePretty("astrology"),
      TextDelegateNoTask,
      TextTool(JStr("web_search"), "kwargs"),
      TextTool(JStr("nonexistent"), "kwargs"),
      TextTool(JStr("list_available_tools"), "empty"),
      TextTool(JNum("5"), "empty"),
      TextTool(JStr("__class__"), "empty") }

\* What _chat_anthropic may return.
ChatReplies == ModelTexts \cup {TextProviderError}

UserMessages == {"hi"}

\* ---------------------------------------------------------------- state
NoResult == [x \in {} |-> ""]
NoAgents == [x \in {} |-> <<>>]

InitAgent ==
    /\ conversation_history = <<>>
    /\ specialized_agents = NoAgents
    /\ apc = "idle"
    /\ who = "primary"
    /\ iteration = 0
    /\ bpc = "idle"
    /\ resp = <<>>
    /\ primary_response = <<>>
    /\ specialist_response = <<>>
    /\ delegation = None
    /\ result = NoResult
    /\ raised = "none"
    /\ spec_inputs = <<>>
    /\ acalls = 0

\* conversation_history of the agent that runs BaseAgent.chat
Hist == IF who = "primary" THEN conversation_history
        ELSE specialized_agents[who]
AppendHist(m) ==
    IF who = "primary"
    THEN /\ conversation_history' = Append(conversation_history, m)
         /\ UNCHANGED specialized_agents
    ELSE /\ specialized_agents' =
                [specialized_agents EXCEPT ![who] = Append(@, m)]
         /\ UNCHANGED conversation_history

\* PrimaryAgent.chat(message) up to the first model call of self.agent.chat.
AgentChat(msg) ==
    /\ UNCHANGED <<extVars, loopVars, storeVars>>
    /\ apc \in {"idle", "done"}
    /\ acalls < MaxCalls
    /\ conversation_history' =
          Append(conversation_history, [role |-> "user", content |-> msg])
    /\ apc' = "primary"
    /\ who' = "primary"
    /\ iteration' = 0
    /\ bpc' = "call"
    /\ resp' = <<>>
    /\ primary_response' = <<>>
    /\ specialist_response' = <<>>
    /\ delegation' = None
    /\ result' = NoResult
    /\ raised' = "none"
    /\ spec_inputs' = <<>>
    /\ UNCHANGED <<specialized_agents, acalls>>

\* _chat_anthropic returns: the model's text, or the error string when the
\* provider call raised; chat appends it as the assistant message.
ModelRespondTransient(text) ==
    /\ UNCHANGED <<extVars, loopVars, storeVars>>
    /\ bpc = "call"
    /\ acalls < MaxCalls
    /\ acalls' = acalls + 1
    /\ resp' = text
    /\ IF apc = "primary" /\ ParseDelegation(text).found
       THEN UNCHANGED <<conversation_history, specialized_agents>>
       ELSE AppendHist([role |-> "assistant", content |-> text])
    /\ bpc' = "check"
    /\ UNCHANGED <<apc, who, iteration, primary_response,
                   specialist_response, delegation, result, raised,
                   spec_inputs>>

ModelRespond(text) ==
    /\ UNCHANGED <<extVars, loopVars, storeVars>>
    /\ bpc = "call"
    /\ acalls < MaxCalls
    /\ acalls' = acalls + 1
    /\ resp' = text
    /\ AppendHist([role |-> "assistant", content |-> text])
    /\ bpc' = "check"
    /\ UNCHANGED <<apc, who, iteration, primary_response,
                   specialist_response, delegation, result, raised,
                   spec_inputs>>

ToolRequest == CheckForToolUse(resp)
ToolOutcome == ExecuteTool(Get(ToolRequest.obj, "tool"),
                           Get(ToolRequest.obj, "parameters"))

\* The except clause of PrimaryAgent.chat.
FailureResultSilent(agent_type, e) ==
    [response |-> primary_response, agent_used |-> "primary",
     delegated |-> FALSE]

FailureResult(agent_type, e) ==
    [response |-> << Prose(<<"I attempted to delegate to the ", agent_type.v,
                             " specialist, but encountered an error: ", e>>) >>,
     agent_used |-> "primary", error |-> e, delegated |-> FALSE]

\* chat: the response asks for a tool and the tool message is appended.
ToolIteration ==
    /\ UNCHANGED <<extVars, loopVars, storeVars>>
    /\ bpc = "check"
    /\ ToolRequest.found
    /\ ~ToolOutcome.raises
    /\ AppendHist([role |-> "user",
                   content |-> <<"Tool Result:", ToolOutcome.value>>])
    /\ iteration' = iteration + 1
    /\ bpc' = IF iteration + 1 < MAX_TOOL_ITERATIONS THEN "call" ELSE "return"
    /\ UNCHANGED <<apc, who, resp, primary_response, specialist_response,
                   delegation, result, raised, spec_inputs, acalls>>

\* chat: getattr or json.dumps raises.  Outside the try of PrimaryAgent.chat
\* the exception reaches the caller; inside it the except clause answers.
ToolRaises ==
    /\ UNCHANGED <<extVars, loopVars, storeVars>>
    /\ bpc = "check"
    /\ ToolRequest.found
    /\ ToolOutcome.raises
    /\ bpc' = "idle"
    /\ apc' = "done"
    /\ IF apc = "primary"
       THEN /\ raised' = ToolOutcome.exc
            /\ UNCHANGED result
       ELSE /\ result' = FailureResult(Get(delegation.obj, "agent"),
                                       ToolOutcome.exc)
            /\ UNCHANGED raised
    /\ UNCHANGED <<conversation_history, specialized_agents, who, iteration,
                   resp, primary_response, specialist_response, delegation,
                   spec_inputs, acalls>>

\* chat: no tool request in the response: return response.
NoToolUse ==
    /\ UNCHANGED <<extVars, loopVars, storeVars>>
    /\ bpc = "check"
    /\ ~ToolRequest.found
    /\ bpc' = "return"
    /\ UNCHANGED <<conversation_history, specialized_agents, apc, who,
                   iteration, resp, primary_response, specialist_response,
                   delegation, result, raised, spec_inputs, acalls>>

Finished(r) ==
    /\ result' = r
    /\ apc' = "done"
    /\ bpc' = "idle"

\* PrimaryAgent.chat: no delegation parsed, the primary's answer is returned.
RouterDirect ==
    /\ UNCHANGED <<extVars, loopVars, storeVars>>
    /\ apc = "primary" /\ bpc = "return"
    /\ ~ParseDelegation(resp).found
    /\ primary_response' = resp
    /\ Finished([response |-> resp, agent_used |-> "primary",
                 delegated |-> FALSE])
    /\ UNCHANGED <<conversation_history, specialized_agents, who, iteration,
                   resp, specialist_response, delegation, raised, spec_inputs,
                   acalls>>

\* PrimaryAgent.chat: `if not agent_type or not task`.
RouterInvalid ==
    /\ UNCHANGED <<extVars, loopVars, storeVars>>
    /\ apc = "primary" /\ bpc = "return"
    /\ ParseDelegation(resp).found
    /\ LET d == ParseDelegation(resp).obj
       IN  /\ ~Truthy(Get(d, "agent")) \/ ~Truthy(Get(d, "task"))
           /\ delegation' = ParseDelegation(resp)
    /\ primary_response' = resp
    /\ Finished([response |-> << Prose(<<"I wanted to delegate this task, but encountered an error in the delegation format.">>) >>,
                 agent_used |-> "primary",
                 error |-> "Invalid delegation format"])
    /\ UNCHANGED <<conversation_history, specialized_agents, who, iteration,
                   resp, specialist_response, raised, spec_inputs, acalls>>

\* _get_or_create_specialist succeeds for a cached type and for a type of
\* the catalog; create_agent raises ValueError for every other type.
Obtainable(agent_type) ==
    agent_type.t = "str" /\ (agent_type.v \in DOMAIN specialized_agents
                             \/ agent_type.v \in Catalog)

\* PrimaryAgent.chat: the specialist is obtained and specialist.chat(task)
\* runs up to its first model call.
RouterDelegateFresh ==
    /\ UNCHANGED <<extVars, loopVars, storeVars>>
    /\ apc = "primary" /\ bpc = "return"
    /\ ParseDelegation(resp).found
    /\ LET d == ParseDelegation(resp).obj
           agent_type == Get(d, "agent")
           task == Get(d, "task")
           cache == [t \in DOMAIN specialized_agents \cup {agent_type.v} |->
                       IF t = agent_type.v THEN <<>> ELSE specialized_agents[t]]
       IN  /\ Truthy(agent_type) /\ Truthy(task)
           /\ Obtainable(agent_type)
           /\ delegation' = ParseDelegation(resp)
           /\ specialized_agents' =
                 [cache EXCEPT ![agent_type.v] =
                     Append(@, [role |-> "user", content |-> task.v])]
           /\ spec_inputs' = Append(spec_inputs,
                                    [agent |-> agent_type.v, message |-> task.v])
           /\ who' = agent_type.v
    /\ primary_response' = resp
    /\ apc' = "specialist"
    /\ iteration' = 0
    /\ bpc' = "call"
    /\ UNCHANGED <<conversation_history, resp, specialist_response, result,
                   raised, acalls>>

\* PrimaryAgent.chat: the specialist is obtained and specialist.chat(task)
\* runs up to its first model call.
RouterDelegate ==
    /\ UNCHANGED <<extVars, loopVars, storeVars>>
    /\ apc = "primary" /\ bpc = "return"
    /\ ParseDelegation(resp).found
    /\ LET d == ParseDelegation(resp).obj
           agent_type == Get(d, "agent")
           task == Get(d, "task")
           cache == IF agent_type.v \in DOMAIN specialized_agents
                    THEN specialized_agents
                    ELSE specialized_agents @@ (agent_type.v :> <<>>)
       IN  /\ Truthy(agent_type) /\ Truthy(task)
           /\ Obtainable(agent_type)
           /\ delegation' = ParseDelegation(resp)
           /\ specialized_agents' =
                 [cache EXCEPT ![agent_type.v] =
                     Append(@, [role |-> "user", content |-> task.v])]
           /\ spec_inputs' = Append(spec_inputs,
                                    [agent |-> agent_type.v, message |-> task.v])
           /\ who' = agent_type.v
    /\ primary_response' = resp
    /\ apc' = "specialist"
    /\ iteration' = 0
    /\ bpc' = "call"
    /\ UNCHANGED <<conversation_history, resp, specialist_response, result,
                   raised, acalls>>

\* PrimaryAgent.chat: create_agent raises, the except clause answers.
RouterUnknown ==
    /\ UNCHANGED <<extVars, loopVars, storeVars>>
    /\ apc = "primary" /\ bpc = "return"
    /\ ParseDelegation(resp).found
    /\ LET d == ParseDelegation(resp).obj
           agent_type == Get(d, "agent")
       IN  /\ Truthy(agent_type) /\ Truthy(Get(d, "task"))
           /\ ~Obtainable(agent_type)
           /\ delegation' = ParseDelegation(resp)
           /\ Finished(FailureResult(agent_type, "Unknown agent type"))
    /\ primary_response' = resp
    /\ UNCHANGED <<conversation_history, specialized_agents, who, iteration,
                   resp, specialist_response, raised, spec_inputs, acalls>>

\* PrimaryAgent.chat: specialist.chat returned; self.agent.chat(synthesis_prompt)
\* runs up to its first model call.
SpecialistReturnsNoAnswer ==
    /\ UNCHANGED <<extVars, loopVars, storeVars>>
    /\ apc = "specialist" /\ bpc = "return"
    /\ specialist_response' = resp
    /\ conversation_history' =
          Append(conversation_history,
                 [role |-> "user",
                  content |-> [prompt |-> "synthesis", agent |-> who,
                               specialist_response |-> <<>>]])
    /\ apc' = "synthesis"
    /\ who' = "primary"
    /\ iteration' = 0
    /\ bpc' = "call"
    /\ UNCHANGED <<specialized_agents, resp, primary_response, delegation,
                   result, raised, spec_inputs, acalls>>

SpecialistReturns ==
    /\ UNCHANGED <<extVars, loopVars, storeVars>>
    /\ apc = "specialist" /\ bpc = "return"
    /\ specialist_response' = resp
    /\ conversation_history' =
          Append(conversation_history,
                 [role |-> "user",
                  content |-> [prompt |-> "synthesis", agent |-> who,
                               specialist_response |-> resp]])
    /\ apc' = "synthesis"
    /\ who' = "primary"
    /\ iteration' = 0
    /\ bpc' = "call"
    /\ UNCHANGED <<specialized_agents, resp, primary_response, delegation,
                   result, raised, spec_inputs, acalls>>

\* PrimaryAgent.chat: the synthesis returned, the delegated result is returned.
SynthesisReturnsChained ==
    /\ UNCHANGED <<extVars, loopVars, storeVars>>
    /\ apc = "synthesis" /\ bpc = "return"
    /\ LET p == ParseDelegation(resp)
           agent_type == Get(p.obj, "agent")
           task == Get(p.obj, "task")
           cache == IF agent_type.v \in DOMAIN specialized_agents
                    THEN specialized_agents
                    ELSE specialized_agents @@ (agent_type.v :> <<>>)
       IN  IF p.found /\ Truthy(agent_type) /\ Truthy(task)
              /\ Obtainable(agent_type)
           THEN /\ specialized_agents' =
                      [cache EXCEPT ![agent_type.v] =
                          Append(@, [role |-> "user", content |-> task.v])]
                /\ spec_inputs' = Append(spec_inputs,
                                         [agent |-> agent_type.v,
                                          message |-> task.v])
                /\ who' = agent_type.v
                /\ delegation' = p
                /\ apc' = "specialist"
                /\ iteration' = 0
                /\ bpc' = "call"
                /\ UNCHANGED <<conversation_history, resp, primary_response,
                               specialist_response, result, raised, acalls>>
           ELSE /\ Finished([response |-> resp,
                             agent_used |-> Get(delegation.obj, "agent").v,
                             specialist_response |-> specialist_response,
                             delegated |-> TRUE])
                /\ UNCHANGED <<conversation_history, specialized_agents, who,
                               iteration, resp, primary_response,
                               specialist_response, delegation, raised,
                               spec_inputs, acalls>>

SynthesisReturns ==
    /\ UNCHANGED <<extVars, loopVars, storeVars>>
    /\ apc = "synthesis" /\ bpc = "return"
    /\ Finished([response |-> resp,
                 agent_used |-> Get(delegation.obj, "agent").v,
                 specialist_response |-> specialist_response,
                 delegated |-> TRUE])
    /\ UNCHANGED <<conversation_history, specialized_agents, who, iteration,
                   resp, primary_response, specialist_response, delegation,
                   raised, spec_inputs, acalls>>

\* PrimaryAgent.reset, called between turns (/api/reset, the terminal's
\* reset command): every history is cleared, the cached agents stay.
PrimaryResetOwnOnly ==
    /\ UNCHANGED <<extVars, loopVars, storeVars>>
    /\ apc \in {"idle", "done"}
    /\ conversation_history' = <<>>
    /\ UNCHANGED <<specialized_agents, apc, who, iteration, bpc, resp,
                   primary_response, specialist_response, delegation, result,
                   raised, spec_inputs, acalls>>

PrimaryReset ==
    /\ UNCHANGED <<extVars, loopVars, storeVars>>
    /\ apc \in {"idle", "done"}
    /\ conversation_history' = <<>>
    /\ specialized_agents' = [t \in DOMAIN specialized_agents |-> <<>>]
    /\ UNCHANGED <<apc, who, iteration, bpc, resp, primary_response,
                   specialist_response, delegation, result, raised,
                   spec_inputs, acalls>>

NextAgent ==
    \/ \E m \in UserMessages : AgentChat(m)
    \/ \E t \in ChatReplies : ModelRespond(t)
    \/ ToolIteration
    \/ ToolRaises
    \/ NoToolUse
    \/ RouterDirect
    \/ RouterInvalid
    \/ RouterDelegate
    \/ RouterUnknown
    \/ SpecialistReturns
    \/ SynthesisReturns
    \/ PrimaryReset

\* ======================================================================
\* The sessions of api_server.py
\* ======================================================================

\* ---------------------------------------------------------------- bounds
MaxApiTurns == 3

SessionIds == {"default", "s1"}

\* PrimaryAgent(): a new primary with an empty history and an empty cache.
NewPrimary == [history |-> <<>>, cache |-> NoAgents]

\* get_or_create_session
GetOrCreateSession(sid) ==
    IF sid \in DOMAIN sessions THEN sessions[sid] ELSE NewPrimary

\* sessions[sid] = agent
PutSession(sid, agent) ==
    [s \in DOMAIN sessions \cup {sid} |->
        IF s = sid THEN agent ELSE sessions[s]]

\* What the model answers to the primary in these requests; specialists
\* and the synthesis answer with plain text.
ApiTexts == {TextPlain, TextDelegate("seo"), TextDelegate("research"),
             TextDelegate("astrology"), TextDelegateNoTask}

\* The messages the stored sessions hold, all sessions together; a turn
\* stores at least two.
RECURSIVE ApiLoad(_)
ApiLoad(sids) ==
    IF sids = {} THEN 0
    ELSE LET s == CHOOSE x \in sids : TRUE
         IN  Len(sessions[s].history) + ApiLoad(sids \ {s})

\* PrimaryAgent.chat(message) on the agent a, from call to return, when the
\* primary answers text and no agent asks for a tool: the agent afterwards.
PrimaryChat(a, msg, text) ==
    LET h1 == a.history \o << [role |-> "user", content |-> msg],
                              [role |-> "assistant", content |-> text] >>
        d == ParseDelegation(text)
        agent_type == Get(d.obj, "agent")
        task == Get(d.obj, "task")
        old == IF agent_type.v \in DOMAIN a.cache
               THEN a.cache[agent_type.v] ELSE <<>>
    IN  IF ~d.found \/ ~Truthy(agent_type) \/ ~Truthy(task)
        THEN [history |-> h1, cache |-> a.cache]
        ELSE IF agent_type.v \notin DOMAIN a.cache \cup Catalog
        THEN [history |-> h1, cache |-> a.cache]
        ELSE [history |-> h1 \o
                  << [role |-> "user",
                      content |-> [prompt |-> "synthesis",
                                   agent |-> agent_type.v,
                                   specialist_response |-> TextPlain]],
                     [role |-> "assistant", content |-> TextPlain] >>,
              cache |-> [t \in DOMAIN a.cache \cup {agent_type.v} |->
                            IF t = agent_type.v
                            THEN old \o << [role |-> "user", content |-> task.v],
                                           [role |-> "assistant",
                                            content |-> TextPlain] >>
                            ELSE a.cache[t]]]

\* chat (/api/chat): the session's agent is looked up or created and runs
\* the turn.
ApiTurn(sid, msg, text) ==
    /\ UNCHANGED <<extVars, loopVars, agentVars, user_histories, sent>>
    /\ ApiLoad(DOMAIN sessions) < 2 * MaxApiTurns
    /\ sessions' = PutSession(sid, PrimaryChat(GetOrCreateSession(sid), msg, text))

\* reset_session (/api/reset)
ApiResetAll(sid) ==
    /\ UNCHANGED <<extVars, loopVars, agentVars, user_histories, sent>>
    /\ sessions' = [s \in DOMAIN sessions |->
                       [history |-> <<>>,
                        cache |-> [t \in DOMAIN sessions[s].cache |-> <<>>]]]

ApiReset(sid) ==
    /\ UNCHANGED <<extVars, loopVars, agentVars, user_histories, sent>>
    /\ IF sid \in DOMAIN sessions
       THEN sessions' = [sessions EXCEPT
               ![sid] = [history |-> <<>>,
                         cache |-> [t \in DOMAIN @.cache |-> <<>>]]]
       ELSE UNCHANGED sessions

NextApi ==
    \/ \E sid \in SessionIds, msg \in UserMessages, text \in ApiTexts :
          ApiTurn(sid, msg, text)
    \/ \E sid \in SessionIds : ApiReset(sid)

\* ======================================================================
\* The terminal around PrimaryAgent.chat (terminal_interface.py)
\* ======================================================================

\* main: Ctrl-C while primary_agent.chat runs; the KeyboardInterrupt leaves
\* chat where it is and `except KeyboardInterrupt: ... continue` goes on to
\* the next input.  The locals of chat are gone, the histories stay as
\* they are.  An abandoned turn counts as a call, so that MaxCalls bounds
\* the turns.
Abandon ==
    /\ UNCHANGED <<extVars, loopVars, storeVars>>
    /\ apc \in {"primary", "specialist", "synthesis"}
    /\ acalls < MaxCalls
    /\ acalls' = acalls + 1
    /\ raised' = "KeyboardInterrupt"
    /\ apc' = "done"
    /\ bpc' = "idle"
    /\ who' = "primary"
    /\ iteration' = 0
    /\ resp' = <<>>
    /\ primary_response' = <<>>
    /\ specialist_response' = <<>>
    /\ delegation' = None
    /\ result' = NoResult
    /\ spec_inputs' = <<>>
    /\ UNCHANGED <<conversation_history, specialized_agents>>

\* What the model answers in the terminal sessions looked at.
TerminalTexts == {TextPlain, TextDelegate("seo"),
                  TextTool(JStr("web_search"), "kwargs")}

NextTerminal ==
    \/ \E m \in UserMessages : AgentChat(m)
    \/ \E t \in TerminalTexts : ModelRespond(t)
    \/ ToolIteration
    \/ NoToolUse
    \/ RouterDirect
    \/ RouterDelegate
    \/ SpecialistReturns
    \/ SynthesisReturns
    \/ Abandon

\* ======================================================================
\* AgentFactory: agents and their chat sessions (agent_factory/factory.py)
\* ======================================================================

\* ---------------------------------------------------------------- bounds
MaxFactoryTurns == 3

FACTORY_MAX_HISTORY == 100
AgentIds == {"a1", "a2"}
FactorySessionIds == {"default", "s1"}

\* f"{agent_id}:{session_id or 'default'}"
SessionKey(agent_id, session_id) == <<agent_id, ":", session_id>>
\* the key delete_agent pops: the agent id alone
AgentKey(agent_id) == <<agent_id>>

\* dict.pop(key, None)
Pop(d, key) == [k \in DOMAIN d \ {key} |-> d[k]]

\* registry.create_agent: agent_id = str(uuid.uuid4()), an id never handed
\* out before.
FactoryCreate(a) ==
    /\ UNCHANGED <<loopVars, agentVars, storeVars, threads>>
    /\ a \notin registry.issued
    /\ registry' = [agents |-> registry.agents \cup {a},
                    issued |-> registry.issued \cup {a}]
    /\ UNCHANGED <<factory_sessions, fturns>>

\* AgentFactory.chat for an agent of the registry: the router returns a
\* text (its own error text when the provider fails).
FactoryChat(a, s) ==
    /\ UNCHANGED <<loopVars, agentVars, storeVars, threads>>
    /\ a \in registry.agents
    /\ fturns < MaxFactoryTurns
    /\ fturns' = fturns + 1
    /\ LET key == SessionKey(a, s)
           old == IF key \in DOMAIN factory_sessions
                  THEN factory_sessions[key] ELSE <<>>
           n == NextOrd(old)
           h == old \o << [role |-> "user", content |-> n],
                          [role |-> "assistant", content |-> n] >>
       IN  factory_sessions' =
              [k \in DOMAIN factory_sessions \cup {key} |->
                  IF k = key THEN LastN(h, FACTORY_MAX_HISTORY)
                  ELSE factory_sessions[k]]
    /\ UNCHANGED registry

\* AgentFactory.reset_session
FactoryReset(a, s) ==
    /\ UNCHANGED <<loopVars, agentVars, storeVars, threads>>
    /\ factory_sessions' = Pop(factory_sessions, SessionKey(a, s))
    /\ UNCHANGED <<registry, fturns>>

\* AgentFactory.delete_agent
FactoryDelete(a) ==
    /\ UNCHANGED <<loopVars, agentVars, storeVars, threads>>
    /\ factory_sessions' = Pop(factory_sessions, AgentKey(a))
    /\ registry' = [registry EXCEPT !.agents = @ \ {a}]
    /\ UNCHANGED fturns

NextFactory ==
    \/ \E a \in AgentIds : FactoryCreate(a)
    \/ \E a \in AgentIds, s \in FactorySessionIds : FactoryChat(a, s)
    \/ \E a \in AgentIds, s \in FactorySessionIds : FactoryReset(a, s)
    \/ \E a \in AgentIds : FactoryDelete(a)

\* ======================================================================
\* Two request threads in _sms_chat for one phone number (app.py)
\* ======================================================================

\* ---------------------------------------------------------------- bounds
MaxConcTurns == 2

\* app.run(...) serves every request in a thread of its own.
Threads == {1, 2}
ConcPhone == "+1"
IdleThread == [pc |-> "idle", n |-> 0, slice |-> <<>>, k |-> 0]

\* The largest number a message of h carries.
MaxOrd(h) ==
    IF h = <<>> THEN 0
    ELSE CHOOSE x \in {h[i].content : i \in 1..Len(h)} :
            \A i \in 1..Len(h) : h[i].content <= x
Other(t) == CHOOSE o \in Threads : o # t
Started == threads[1].k + threads[2].k

\* A request that runs alone, before the two threads meet.
SerialTurn ==
    /\ \A t \in Threads : threads[t].pc = "idle"
    /\ Started = 0
    /\ SmsTurn(ConcPhone)

\* sms_history[phone].append({"role": "user", ...})
ThreadAppendUser(t) ==
    /\ UNCHANGED <<agentVars, user_histories, sent, sessions, registry,
                   factory_sessions, fturns>>
    /\ threads[t].pc = "idle"
    /\ Started < MaxConcTurns
    /\ LET h == sms_history[ConcPhone]
           n == 1 + (IF MaxOrd(h) > threads[Other(t)].n
                     THEN MaxOrd(h) ELSE threads[Other(t)].n)
       IN  /\ sms_history' = [sms_history EXCEPT
                  ![ConcPhone] = Append(h, [role |-> "user", content |-> n])]
           /\ threads' = [threads EXCEPT
                  ![t] = [pc |-> "trim", n |-> n, slice |-> <<>>,
                          k |-> @.k + 1]]
    /\ UNCHANGED <<history, lpc, chan, phone, uid, messages, response, round,
                   calls, lastSent, executed, reply, outcome, turns>>

\* `if len(sms_history[phone]) > SMS_MAX_HISTORY` and the evaluation of
\* sms_history[phone][-SMS_MAX_HISTORY:], which builds a new list.
ThreadSlice(t) ==
    /\ UNCHANGED <<agentVars, loopVars, storeVars, registry,
                   factory_sessions, fturns>>
    /\ threads[t].pc = "trim"
    /\ LET h == sms_history[ConcPhone]
       IN  threads' = [threads EXCEPT
              ![t] = IF Len(h) > SMS_MAX_HISTORY
                     THEN [@ EXCEPT !.pc = "store",
                                    !.slice = LastN(h, SMS_MAX_HISTORY)]
                     ELSE [@ EXCEPT !.pc = "call"]]

\* sms_history[phone] = <the new list>
ThreadStoreSlice(t) ==
    /\ UNCHANGED <<agentVars, user_histories, sent, sessions, registry,
                   factory_sessions, fturns>>
    /\ threads[t].pc = "store"
    /\ sms_history' = [sms_history EXCEPT ![ConcPhone] = threads[t].slice]
    /\ threads' = [threads EXCEPT ![t] = [@ EXCEPT !.pc = "call",
                                                   !.slice = <<>>]]
    /\ UNCHANGED <<history, lpc, chan, phone, uid, messages, response, round,
                   calls, lastSent, executed, reply, outcome, turns>>

\* _chat_with_tools returns (or raises and the error text is the reply) and
\* sms_history[phone].append({"role": "assistant", ...}).
ThreadAppendReply(t) ==
    /\ UNCHANGED <<agentVars, user_histories, sent, sessions, registry,
                   factory_sessions, fturns>>
    /\ threads[t].pc = "call"
    /\ sms_history' = [sms_history EXCEPT
          ![ConcPhone] = Append(@, [role |-> "assistant",
                                    content |-> threads[t].n])]
    /\ threads' = [threads EXCEPT ![t] = [@ EXCEPT !.pc = "idle", !.n = 0]]
    /\ UNCHANGED <<history, lpc, chan, phone, uid, messages, response, round,
                   calls, lastSent, executed, reply, outcome, turns>>

NextConc ==
    \/ SerialTurn
    \/ \E t \in Threads : ThreadAppendUser(t)
    \/ \E t \in Threads : ThreadSlice(t)
    \/ \E t \in Threads : ThreadStoreSlice(t)
    \/ \E t \in Threads : ThreadAppendReply(t)

InitExt ==
    /\ registry = [agents |-> {}, issued |-> {}]
    /\ factory_sessions = NoSessions
    /\ fturns = 0
    /\ threads = [t \in Threads |-> IdleThread]

\* ------------------------------------------------------- specifications
vars == <<loopVars, agentVars, storeVars, extVars>>
Init == InitLoop /\ InitAgent /\ InitStore /\ InitExt
SpecLoop == Init /\ [][NextLoop]_vars
SpecAgent == Init /\ [][NextAgent]_vars
SpecTelegram == Init /\ [][NextTelegram]_vars
SpecStore == Init /\ [][NextStore]_vars
SpecApi == Init /\ [][NextApi]_vars
SpecTerminal == Init /\ [][NextTerminal]_vars
SpecFactory == Init /\ [][NextFactory]_vars
SpecConc == Init /\ [][NextConc]_vars

\* ======================================================================
\* Properties of the tool loop (SpecLoop)
\* ======================================================================

\* The stored history of the running entry point.
Stored == IF chan = "sms" THEN sms_history[phone] ELSE history
\* Length of the message list the turn started with.
H0Len == Len(messages) - 2 * round
\* The assistant tool-request message and the tool-result message of round j.
RoundAsst(j) == messages[H0Len + 2 * j - 1]
RoundResults(j) == messages[H0Len + 2 * j]
IsError(r) == "is_error" \in DOMAIN r /\ r.is_error = TRUE
HandlerRaises(b) == b.name \in TOOL_HANDLERS /\ Handler(b.name, b.input).raises

\* C1: one turn of the tool loop terminates for every provider behaviour:
\* every step of a running turn strictly increases a measure that never
\* exceeds 2 * (MAX_ROUNDS + 1), so the turn makes at most five tool
\* round-trips and six provider calls and then returns.
Measure == IF lpc = "loop" THEN 2 * calls - 1 ELSE 2 * calls
TurnAdvances ==
    lpc \in {"call", "loop"} =>
        /\ Measure' > Measure
        /\ Measure' <= 2 * (MAX_ROUNDS + 1)
        /\ round' <= MAX_ROUNDS
        /\ lpc' \in {"call", "loop", "done"}
C1_TurnTerminates == [][TurnAdvances]_loopVars
C1_Witness ==
    /\ lpc = "done" /\ outcome = "budget"
    /\ round = MAX_ROUNDS /\ calls = MAX_ROUNDS + 1

\* C2 (as claimed): when the round budget is exhausted the returned reply
\* carries a budget-exceeded indicator, so it differs from every reply a
\* normal final answer produces.
FinalReplies ==
    { ExtractText(r.content) : r \in {x \in Responses : x.stop_reason # "tool_use"} }
HasUnknown(content) ==
    \E i \in 1..Len(content) :
        content[i].type = "tool_use" /\ content[i].name \notin TOOL_HANDLERS
UnknownAnswered(asst, res) ==
    LET tu == ToolUses(asst.content)
    IN  \A i \in 1..Len(tu) :
            tu[i].name \notin TOOL_HANDLERS =>
                /\ i <= Len(res.content)
                /\ res.content[i].tool_use_id = tu[i].id
                /\ IsError(res.content[i])
                /\ res.content[i].content = <<"Tool '", tu[i].name, "' not available.">>
UnknownToolStep ==
    /\ (/\ lpc = "loop" /\ round < MAX_ROUNDS
        /\ response.stop_reason = "tool_use" /\ HasUnknown(response.content))
       => /\ lpc' = "call"
          /\ messages'[Len(messages') - 1].content = response.content
          /\ UnknownAnswered(messages'[Len(messages') - 1],
                             messages'[Len(messages')])
    /\ (lpc = "call" /\ lpc' # "call")
       => (calls' = calls + 1 /\ lastSent' = messages)
C4_HandlerRaiseContained ==
    round > 0 =>
        LET tu == ToolUses(RoundAsst(round).content)
            res == RoundResults(round).content
        IN  /\ lpc \in {"call", "loop", "done"}
            /\ Len(res) = Len(tu)
            /\ \A i \in 1..Len(tu) :
                  /\ res[i].tool_use_id = tu[i].id
                  /\ HandlerRaises(tu[i]) => IsError(res[i])
                  /\ tu[i].name \in TOOL_HANDLERS =>
                        \E j \in 1..Len(executed) :
                            executed[j] = [round |-> round, id |-> tu[i].id,
                                           name |-> tu[i].name,
                                           input |-> tu[i].input]
C4_Witness ==
    /\ lpc = "call" /\ round > 0
    /\ LET tu == ToolUses(RoundAsst(round).content)
           res == RoundResults(round).content
       IN  /\ Len(tu) = 3
           /\ HandlerRaises(tu[1]) /\ IsError(res[1])
           /\ ~IsError(res[3])
           /\ executed[Len(executed)].id = tu[3].id

\* C5 (as claimed): after a failed provider call no assistant message is
\* appended: the stored history is the history before the turn plus the
\* user message of the turn, and nothing else.
C5_NoAssistantAfterFailure ==
    (lpc = "done" /\ outcome = "error") =>
        /\ Stored[Len(Stored)].role = "user"
        /\ SubSeq(messages, 1, H0Len) =
              IF chan = "sms" THEN Stored ELSE BuildMessages(Stored)
\* C5 (amended): after a failed provider call the user message stays in the
\* stored history and the error text is appended after it as the reply of
\* the turn; nothing else of the turn is stored.
C5_ErrorReplyStored ==
    (lpc = "done" /\ outcome = "error") =>
        LET n == Len(Stored)
            h0 == SubSeq(Stored, 1, n - 1)
        IN  /\ n >= 2
            /\ Stored[n - 1].role = "user"
            /\ Stored[n].role = IF chan = "sms" THEN "assistant" ELSE "bot"
            /\ Stored[n].content = reply
            /\ reply[1] = IF chan = "sms" THEN "Something went sideways: "
                          ELSE "[LINK ERROR] Something went sideways: "
            /\ SubSeq(messages, 1, H0Len) =
                  IF chan = "sms" THEN h0 ELSE BuildMessages(h0)
C5_Witness ==
    /\ lpc = "done" /\ outcome = "error" /\ round > 0
    /\ Stored[Len(Stored)].content = reply

\* What the loop has done when it ends with a final answer after `round`
\* tool rounds: round + 1 provider calls, the last of them given the
\* starting messages followed by one pair of assistant tool request and
\* tool-result message per round, and the reply r.
AllSucceeded ==
    \A j \in 1..round : \A i \in 1..Len(RoundResults(j).content) :
        ~IsError(RoundResults(j).content[i])
RoundsThenFinal(r) ==
    /\ calls = round + 1
    /\ round <= MAX_ROUNDS
    /\ lastSent = messages
    /\ SubSeq(messages, 1, H0Len) =
          (IF chan = "sms" THEN SubSeq(Stored, 1, Len(Stored) - 1)
           ELSE BuildMessages(SubSeq(Stored, 1, Len(Stored) - 1)))
    /\ \A j \in 1..round :
          /\ RoundAsst(j).role = "assistant"
          /\ ToolUses(RoundAsst(j).content) # <<>>
          /\ RoundResults(j).role = "user"
          /\ Len(RoundResults(j).content) = Len(ToolUses(RoundAsst(j).content))
          /\ \A i \in 1..Len(RoundResults(j).content) :
                RoundResults(j).content[i].type = "tool_result"
    /\ reply = r
\* C7 (as claimed): when all handlers succeed and the provider asks for
\* tools k times and then gives a final answer, the loop makes k+1 provider
\* calls, the last call sees k tool-result messages, each directly after its
\* round's assistant tool request, and the reply is the final answer's text.
C7_ReplyIsFinalText ==
    (lpc = "done" /\ outcome = "final" /\ AllSucceeded) =>
        RoundsThenFinal(TextParts(response.content))
\* C7 (amended): the same, except that the reply is "Done." when the final
\* answer has no text block.
C7_RoundsThenFinal ==
    (lpc = "done" /\ outcome = "final" /\ AllSucceeded) =>
        RoundsThenFinal(IF TextParts(response.content) # <<>>
                        THEN TextParts(response.content) ELSE <<"Done.">>)
C7_Witness ==
    /\ lpc = "done" /\ outcome = "final" /\ AllSucceeded
    /\ round = 2 /\ calls = 3 /\ reply = <<"42">>

\* C8: in every round the loop runs, each tool_use block is answered by
\* exactly one tool_result with its id, the results are in the order of the
\* blocks, and each provider call is made with all results of the rounds
\* before it.
C8_OneResultPerInvocation ==
    /\ \A j \in 1..round :
          LET tu == ToolUses(RoundAsst(j).content)
              res == RoundResults(j).content
          IN  /\ Len(res) = Len(tu)
              /\ \A i \in 1..Len(tu) :
                    /\ res[i].type = "tool_result"
                    /\ res[i].tool_use_id = tu[i].id
                    /\ Cardinality({k \in 1..Len(res) :
                                      res[k].tool_use_id = tu[i].id}) = 1
    /\ lpc \in {"loop", "done"} => (lastSent = messages /\ calls = round + 1)
    /\ lpc = "call" => calls = round
C8_Witness ==
    /\ lpc = "loop" /\ round = 2
    /\ Len(RoundResults(1).content) = 3
    /\ RoundResults(1).content[1].tool_use_id = "t1"
    /\ RoundResults(1).content[2].tool_use_id = "t2"
    /\ RoundResults(1).content[3].tool_use_id = "t3"

\* ======================================================================
\* Properties of the delegation router (SpecAgent)
\* ======================================================================

\* A complete delegation marker in a text: a JSON object, on one line or
\* spread over the following lines, with "action": "delegate", an agent and
\* a task.  MarkerAgent is the type the first marker names.
MarkerAt(lines, i) ==
    /\ StartsWithBrace(lines[i])
    /\ LoadsAtOk(lines, i)
    /\ Get(LoadsAt(lines, i), "action") = JStr("delegate")
    /\ Get(LoadsAt(lines, i), "agent").t = "str"
    /\ Get(LoadsAt(lines, i), "task").t = "str"
    /\ Truthy(Get(LoadsAt(lines, i), "agent"))
    /\ Truthy(Get(LoadsAt(lines, i), "task"))
HasMarker(lines) == \E i \in 1..Len(lines) : MarkerAt(lines, i)
FirstMarker(lines) ==
    LoadsAt(lines, CHOOSE i \in 1..Len(lines) :
                      /\ MarkerAt(lines, i)
                      /\ \A j \in 1..(i - 1) : ~MarkerAt(lines, j))
KnownMarker(lines) ==
    HasMarker(lines) /\ FirstMarker(lines)["agent"].v \in Catalog
UnknownMarker(lines) ==
    HasMarker(lines) /\ FirstMarker(lines)["agent"].v \notin Catalog
\* PrimaryAgent.chat returned (a dict or an exception) after the primary's
\* own chat had returned its answer.
TurnDone == apc = "done" /\ primary_response # <<>>

\* C6: PrimaryAgent.chat never lets an exception reach its caller: every
\* finished turn has a result dict with a response text or an error field.
C6_NoExceptionEscapes ==
    /\ raised = "none"
    /\ apc = "done" => ("response" \in DOMAIN result \/ "error" \in DOMAIN result)

\* C9: when the primary's answer holds a valid delegation marker for a type
\* of the catalog, that specialist is run once with the marker's task as its
\* input, and the result has delegated = TRUE and names the type.
C9_KnownMarkerDelegates ==
    (TurnDone /\ KnownMarker(primary_response)) =>
        /\ spec_inputs = << [agent |-> FirstMarker(primary_response)["agent"].v,
                             message |-> FirstMarker(primary_response)["task"].v] >>
        /\ "delegated" \in DOMAIN result
        /\ result.delegated = TRUE
        /\ result.agent_used = FirstMarker(primary_response)["agent"].v

\* C10 (as claimed): a marker that names a type outside the catalog makes
\* the turn return the primary's unmodified answer with delegated = FALSE
\* and no error.
C10_UnknownReturnsAnswer ==
    (TurnDone /\ UnknownMarker(primary_response)) =>
        /\ result.response = primary_response
        /\ "delegated" \in DOMAIN result /\ result.delegated = FALSE
        /\ "error" \notin DOMAIN result
\* C10 (amended): for a complete marker that names a type outside the
\* catalog no specialist runs and nothing is raised; when the router's
\* parser finds the marker the result is the failure message naming the
\* type, with an error field and delegated = FALSE; when it does not find
\* it the result is the primary's unmodified answer with delegated = FALSE.
C10_UnknownTypeFails ==
    (TurnDone /\ UnknownMarker(primary_response)) =>
        LET name == FirstMarker(primary_response)["agent"].v
        IN  /\ raised = "none"
            /\ spec_inputs = <<>>
            /\ DOMAIN specialized_agents \subseteq Catalog
            /\ result.agent_used = "primary"
            /\ "delegated" \in DOMAIN result /\ result.delegated = FALSE
            /\ IF delegation.found
               THEN /\ "error" \in DOMAIN result
                    /\ result.response =
                          << Prose(<<"I attempted to delegate to the ", name,
                                     " specialist, but encountered an error: ",
                                     result.error>>) >>
               ELSE /\ "error" \notin DOMAIN result
                    /\ result.response = primary_response
C10_Witness ==
    /\ TurnDone /\ UnknownMarker(primary_response)
    /\ delegation.found
    /\ "error" \in DOMAIN result
    /\ result.delegated = FALSE
    /\ result.response # primary_response

\* The /api/chat handler around primary_agent.chat: the ChatResponse it
\* builds from the result, or the HTTPException its except clause raises.
ApiChat(res, exc) ==
    IF exc # "none"
    THEN [status |-> 500, detail |-> exc]
    ELSE IF {"response", "agent_used", "delegated"} \subseteq DOMAIN res
    THEN [status |-> 200, response |-> res.response,
          agent_used |-> res.agent_used, delegated |-> res.delegated]
    ELSE [status |-> 500, detail |-> "KeyError"]

\* A malformed or ambiguous marker: a line that starts an object and names
\* the delegate action but does not parse, or a parsed delegate action
\* without a (non-empty) agent or task; and no complete marker in the text.
Unparsable(lines, i) ==
    /\ StartsWithBrace(lines[i])
    /\ {"action", "delegate"} \subseteq Quoted(lines[i])
    /\ ~LoadsAtOk(lines, i)
Incomplete(lines, i) ==
    /\ StartsWithBrace(lines[i])
    /\ LoadsAtOk(lines, i)
    /\ Get(LoadsAt(lines, i), "action") = JStr("delegate")
    /\ ~Truthy(Get(LoadsAt(lines, i), "agent"))
          \/ ~Truthy(Get(LoadsAt(lines, i), "task"))
MalformedMarker(lines) ==
    /\ ~HasMarker(lines)
    /\ \E i \in 1..Len(lines) : Unparsable(lines, i) \/ Incomplete(lines, i)

\* C11: a malformed or ambiguous delegation marker in the primary's answer
\* is treated as no delegation and never as an error: no specialist runs,
\* the result carries no error and its text is the primary's answer.
C11_MalformedIsNoDelegation ==
    (TurnDone /\ MalformedMarker(primary_response)) =>
        /\ raised = "none"
        /\ spec_inputs = <<>>
        /\ "error" \notin DOMAIN result
        /\ result.response = primary_response

\* C12: every result PrimaryAgent.chat returns has a response text and a
\* boolean delegated field, so the /api/chat handler that reads
\* result["delegated"] answers with a ChatResponse.
C12_ResultHasDelegated ==
    (apc = "done" /\ raised = "none") =>
        /\ "response" \in DOMAIN result
        /\ "delegated" \in DOMAIN result
        /\ result.delegated \in BOOLEAN
        /\ ApiChat(result, raised).status = 200

\* C13: one turn runs at most one specialist: while the specialist or the
\* synthesis runs no further specialist is started, and the turn returns
\* the synthesis answer and the specialist's answer as they are, also when
\* they hold a valid delegation marker.
OneHopStep ==
    /\ Len(spec_inputs') <= 1
    /\ apc \in {"specialist", "synthesis"} =>
          /\ spec_inputs' = spec_inputs
          /\ delegation' = delegation
          /\ DOMAIN specialized_agents' = DOMAIN specialized_agents
          /\ apc' \in {"specialist", "synthesis", "done"}
    /\ (apc = "specialist" /\ apc' = "synthesis") =>
          (specialist_response' = resp /\ who' = "primary")
    /\ (apc = "synthesis" /\ bpc = "return") =>
          /\ apc' = "done"
          /\ result'.response = resp
          /\ result'.specialist_response = specialist_response
          /\ result'.delegated = TRUE
C13_OneHop == [][OneHopStep]_agentVars
C13_Witness ==
    /\ apc = "done" /\ "delegated" \in DOMAIN result /\ result.delegated
    /\ KnownMarker(result.response)
    /\ KnownMarker(result.specialist_response)
    /\ Len(spec_inputs) = 1

\* C14: the specialist cache holds only types of the catalog, one history
\* per type; an entry appears only in the step that starts the first
\* delegation to its type, a failed creation adds none, no step removes
\* one, and a later delegation to a cached type continues that entry's own
\* history.
CacheStep ==
    /\ DOMAIN specialized_agents' \subseteq Catalog
    /\ DOMAIN specialized_agents \subseteq DOMAIN specialized_agents'
    /\ (apc = "primary" /\ apc' = "specialist") =>
          /\ DOMAIN specialized_agents' = DOMAIN specialized_agents \cup {who'}
          /\ specialized_agents'[who'] =
                Append(IF who' \in DOMAIN specialized_agents
                       THEN specialized_agents[who'] ELSE <<>>,
                       [role |-> "user",
                        content |-> Get(delegation'.obj, "task").v])
          /\ \A t \in DOMAIN specialized_agents \ {who'} :
                specialized_agents'[t] = specialized_agents[t]
    /\ ~(apc = "primary" /\ apc' = "specialist") =>
          DOMAIN specialized_agents' = DOMAIN specialized_agents
C14_CacheReuse == [][CacheStep]_agentVars
C14_Witness ==
    /\ apc = "specialist" /\ bpc = "call" /\ iteration = 0
    /\ Len(specialized_agents[who]) = 3
    /\ specialized_agents[who][2].role = "assistant"

\* ======================================================================
\* Properties of the session stores (SpecStore)
\* ======================================================================

\* The last m elements of full, in their order, stated element by element.
KeepsLast(kept, full, m) ==
    IF Len(full) > m
    THEN /\ Len(kept) = m
         /\ \A i \in 1..m : kept[i] = full[Len(full) - m + i]
    ELSE kept = full

\* C15: a truncation keeps exactly the last M messages of the list it is
\* applied to, in their order, and leaves a list of at most M messages as
\* it is.  In _sms_chat the list is the stored history with the user
\* message appended; in the Telegram handlers it is the list at hand when
\* _trim_history cuts (with the user message, or with user message and
\* reply).
TruncStep ==
    /\ \A p \in Phones :
          (sms_history'[p] # sms_history[p] /\ sms_history'[p] # <<>>) =>
              LET new == sms_history'[p]
                  kept == SubSeq(new, 1, Len(new) - 1)
                  full == Append(sms_history[p], new[Len(new) - 1])
              IN  /\ KeepsLast(kept, full, SMS_MAX_HISTORY)
                  /\ sent' = kept
    /\ \A u \in Uids :
          (user_histories'[u] # user_histories[u] /\ user_histories'[u] # <<>>) =>
              LET new == user_histories'[u]
                  old == user_histories[u]
              IN  IF Len(old) + 1 > MAX_HISTORY
                  THEN KeepsLast(new, Append(old, new[Len(new)]), MAX_HISTORY)
                  ELSE KeepsLast(new, old \o <<new[Len(new) - 1], new[Len(new)]>>,
                                 MAX_HISTORY)
C15_TruncationKeepsLast == [][TruncStep]_vars
C15_Witness ==
    \E u \in Uids :
        /\ Len(user_histories[u]) = MAX_HISTORY
        /\ user_histories[u][1] = [role |-> "assistant", content |-> 1]
        /\ user_histories[u][MAX_HISTORY].content = 26

\* C16: after every completed turn each stored session has at most the
\* configured maximum number of messages.
C16_RetentionBounded ==
    /\ \A p \in Phones : Len(sms_history[p]) <= SMS_MAX_HISTORY
    /\ \A u \in Uids : Len(user_histories[u]) <= MAX_HISTORY

\* C17: a reset empties the primary's history and the history of every
\* cached specialist, all in one step; every other step only appends to the
\* histories; so the turn after a reset starts from the empty history and
\* its first provider call is given the new user message alone.
IsPrefix(s, t) == Len(s) <= Len(t) /\ SubSeq(t, 1, Len(s)) = s
ResetStep ==
    /\ \/ /\ IsPrefix(conversation_history, conversation_history')
          /\ \A t \in DOMAIN specialized_agents :
                IsPrefix(specialized_agents[t], specialized_agents'[t])
       \/ /\ conversation_history' = <<>>
          /\ \A t \in DOMAIN specialized_agents' :
                specialized_agents'[t] = <<>>
    /\ (apc \in {"idle", "done"} /\ apc' = "primary"
          /\ conversation_history = <<>>) =>
             /\ Len(conversation_history') = 1
             /\ conversation_history'[1].role = "user"
             /\ conversation_history'[1].content \in UserMessages
             /\ who' = "primary" /\ bpc' = "call"
C17_ResetEmpties == [][ResetStep]_agentVars
C17_Witness ==
    /\ apc = "primary" /\ bpc = "check"
    /\ Len(conversation_history) = 2
    /\ \E t \in DOMAIN specialized_agents : specialized_agents[t] = <<>>

\* ======================================================================
\* Properties of the api_server sessions (SpecApi)
\* ======================================================================

\* C18: a chat or a reset for one session id leaves every session with
\* another id as it is, its message sequence and its specialist cache: a
\* step changes or creates at most one session and removes none.
Touched ==
    {s \in DOMAIN sessions' : s \notin DOMAIN sessions \/ sessions'[s] # sessions[s]}
IndependentStep ==
    /\ DOMAIN sessions \subseteq DOMAIN sessions'
    /\ Cardinality(Touched) <= 1
C18_SessionsIndependent == [][IndependentStep]_vars
C18_Witness ==
    /\ DOMAIN sessions = SessionIds
    /\ sessions["default"].history = <<>>
    /\ DOMAIN sessions["default"].cache = {"seo"}
    /\ Len(sessions["s1"].history) = 4
    /\ DOMAIN sessions["s1"].cache = {"research"}
    /\ Len(sessions["s1"].cache["research"]) = 2

\* ======================================================================
\* Properties of the tool loop entered from Telegram (SpecTelegram)
\* ======================================================================

\* C19: a handler runs only for a tool of the tools list passed to the
\* provider in that turn; a request for any other tool, also one that has a
\* handler, gets an is_error tool_result and runs nothing.
C19_OnlyOfferedExecuted ==
    /\ \A j \in 1..Len(executed) : executed[j].name \in Tools(chan)
    /\ \A j \in 1..round :
          LET tu == ToolUses(RoundAsst(j).content)
              res == RoundResults(j).content
          IN  \A i \in 1..Len(tu) :
                  tu[i].name \notin Tools(chan) => IsError(res[i])

\* A tool_use block whose handler returns a failure value.
ReturnsFailure(b) ==
    /\ b.name \in TOOL_HANDLERS
    /\ ~Handler(b.name, b.input).raises
    /\ Handler(b.name, b.input).value = "error"

\* C20 (as claimed): a handler that returns a failure value instead of
\* raising gets an is_error tool_result, like a handler that raises, and
\* the loop continues.
C20_ReturnedFailureIsError ==
    \A j \in 1..round :
        LET tu == ToolUses(RoundAsst(j).content)
            res == RoundResults(j).content
        IN  /\ Len(res) = Len(tu)
            /\ \A i \in 1..Len(tu) :
                  ReturnsFailure(tu[i]) =>
                      (res[i].tool_use_id = tu[i].id /\ IsError(res[i]))
\* C20 (amended): a handler that returns a failure value gets an ordinary
\* tool_result, without is_error, whose content is the JSON of the returned
\* value; the loop continues and the next provider call is given it.
C20_ReturnedFailureIsContent ==
    /\ \A j \in 1..round :
          LET tu == ToolUses(RoundAsst(j).content)
              res == RoundResults(j).content
          IN  /\ Len(res) = Len(tu)
              /\ \A i \in 1..Len(tu) :
                    ReturnsFailure(tu[i]) =>
                        /\ res[i].tool_use_id = tu[i].id
                        /\ "is_error" \notin DOMAIN res[i]
                        /\ res[i].content = <<"json", "error">>
    /\ (round > 0 /\ lpc \in {"loop", "done"}) => lastSent = messages
    /\ (round > 0 /\ lpc = "call") => calls = round
C20_Witness ==
    /\ lpc = "loop" /\ round = 1 /\ calls = 2
    /\ \E i \in 1..Len(ToolUses(RoundAsst(1).content)) :
          /\ ReturnsFailure(ToolUses(RoundAsst(1).content)[i])
          /\ lastSent[Len(lastSent)].content[i].content = <<"json", "error">>

\* ======================================================================
\* Properties of an abandoned turn (SpecTerminal)
\* ======================================================================

\* A history without a part of a round: it is empty or ends with an
\* assistant message that asks for no tool.
IsToolRequest(msg) ==
    msg.role = "assistant" /\ CheckForToolUse(msg.content).found
WholeRounds(h) ==
    h = <<>> \/ (h[Len(h)].role = "assistant" /\ ~IsToolRequest(h[Len(h)]))

\* C26: after a turn was abandoned the histories of the session hold whole
\* rounds only: no user message without its answer and no tool request
\* without its tool result.
C26_AbandonLeavesWholeRounds ==
    (apc = "done" /\ raised # "none") =>
        /\ WholeRounds(conversation_history)
        /\ \A t \in DOMAIN specialized_agents :
              WholeRounds(specialized_agents[t])

\* ======================================================================
\* Properties of concurrent turns for one key (SpecConc)
\* ======================================================================

\* C27: two turns for one phone number that overlap are serialized: when
\* both have returned, every user message of the stored history is directly
\* followed by the reply to it, and no message between the oldest and the
\* newest kept one is missing.
C27_TurnsSerialized ==
    (\A t \in Threads : threads[t].pc = "idle") =>
        LET h == sms_history[ConcPhone]
            ords == {h[i].content : i \in 1..Len(h)}
        IN  /\ \A i \in 1..Len(h) :
                  h[i].role = "user" =>
                      /\ i < Len(h)
                      /\ h[i + 1] = [role |-> "assistant",
                                     content |-> h[i].content]
            /\ \A n \in ords :
                  (\E x \in ords : x < n) =>
                      /\ \E i \in 1..Len(h) :
                            h[i] = [role |-> "user", content |-> n]
                      /\ \E i \in 1..Len(h) :
                            h[i] = [role |-> "assistant", content |-> n]
            /\ \A n \in 1..MaxOrd(h) : (\E x \in ords : x < n) => n \in ords

\* ======================================================================
\* Properties of the agent factory (SpecFactory)
\* ======================================================================

\* C30: after delete_agent(agent_id) the session store holds no history of
\* that agent, whatever session ids were used with it.
C30_DeleteRemovesSessions ==
    \A a \in registry.issued \ registry.agents :
        \A s \in FactorySessionIds :
            SessionKey(a, s) \notin DOMAIN factory_sessions

\* ======================================================================
\* Properties of a delegated turn and of BaseAgent.chat (SpecAgent)
\* ======================================================================

\* PrimaryAgent.chat returns the delegated result in this step.
DelegatedReturn ==
    /\ apc = "synthesis" /\ apc' = "done"
    /\ "delegated" \in DOMAIN result' /\ result'.delegated
\* The synthesized answer is an assistant message of h, the last message
\* or the one before a last tool message.
HoldsAnswer(h, answer) ==
    \E j \in 1..Len(h) :
        /\ j >= Len(h) - 1
        /\ h[j].role = "assistant"
        /\ h[j].content = answer

\* C21 (as claimed): after a delegated turn the primary's history holds the
\* synthesized answer and no message with the delegation text the primary
\* produced.
C21_RawDelegationNotPersisted ==
    [][DelegatedReturn =>
          /\ HoldsAnswer(conversation_history', result'.response)
          /\ \A i \in 1..Len(conversation_history') :
                conversation_history'[i].role = "assistant" =>
                    conversation_history'[i].content # primary_response
      ]_agentVars
\* C21 (amended): after a delegated turn the primary's history holds the
\* delegation text the primary produced as an assistant message, and after
\* it the synthesized answer.
C21_RawDelegationPersisted ==
    [][DelegatedReturn =>
          /\ HoldsAnswer(conversation_history', result'.response)
          /\ ParseDelegation(primary_response).found
          /\ \E i \in 1..(Len(conversation_history') - 2) :
                /\ conversation_history'[i].role = "assistant"
                /\ conversation_history'[i].content = primary_response
      ]_agentVars
C21_Witness ==
    /\ apc = "done"
    /\ "delegated" \in DOMAIN result /\ result.delegated
    /\ Len(conversation_history) = 4
    /\ conversation_history[2].role = "assistant"
    /\ conversation_history[2].content = primary_response
    /\ ParseDelegation(primary_response).found
    /\ conversation_history[4].content = result.response

\* The completion rounds the running BaseAgent.chat has made when it
\* returns.
RoundsMade == IF ToolRequest.found THEN iteration ELSE iteration + 1

\* C25 (as claimed): the synthesis is one completion round: the primary
\* gets the synthesis request with the specialist's answer, the model is
\* called once, and the turn returns that answer.
C25_OneSynthesisRound ==
    [][/\ (apc = "specialist" /\ apc' = "synthesis") =>
             conversation_history' =
                 Append(conversation_history,
                        [role |-> "user",
                         content |-> [prompt |-> "synthesis", agent |-> who,
                                      specialist_response |-> resp]])
       /\ (apc = "synthesis" /\ apc' = "done") =>
             /\ RoundsMade = 1
             /\ "delegated" \in DOMAIN result' /\ result'.delegated
             /\ result'.response = resp
      ]_agentVars
\* C25 (amended): the primary gets one synthesis request with the
\* specialist's answer and runs its own chat loop on it: one completion
\* round when the answer asks for no tool, one more for every tool request,
\* at most MAX_TOOL_ITERATIONS; the turn returns the last answer, or the
\* delegation-failure result when a tool request makes _execute_tool raise.
C25_SynthesisLoop ==
    [][/\ (apc = "specialist" /\ apc' = "synthesis") =>
             /\ conversation_history' =
                   Append(conversation_history,
                          [role |-> "user",
                           content |-> [prompt |-> "synthesis", agent |-> who,
                                        specialist_response |-> resp]])
             /\ iteration' = 0 /\ bpc' = "call" /\ who' = "primary"
       /\ (apc = "synthesis" /\ apc' = "synthesis") =>
             /\ UNCHANGED <<specialized_agents, spec_inputs,
                            specialist_response>>
             /\ conversation_history' # conversation_history =>
                   \/ /\ bpc = "call"
                      /\ conversation_history' =
                            Append(conversation_history,
                                   [role |-> "assistant", content |-> resp'])
                   \/ /\ bpc = "check" /\ ToolRequest.found
                      /\ conversation_history' =
                            Append(conversation_history,
                                   [role |-> "user",
                                    content |-> <<"Tool Result:",
                                                  ToolOutcome.value>>])
       /\ (apc = "synthesis" /\ apc' = "done") =>
             \/ /\ bpc = "return"
                /\ RoundsMade \in 1..MAX_TOOL_ITERATIONS
                /\ RoundsMade = 1 <=> (iteration = 0)
                /\ result'.delegated = TRUE
                /\ result'.response = resp
                /\ result'.specialist_response = specialist_response
             \/ /\ bpc = "check" /\ ToolRequest.found /\ ToolOutcome.raises
                /\ result'.delegated = FALSE
                /\ "error" \in DOMAIN result'
      ]_agentVars
C25_Witness ==
    /\ apc = "done"
    /\ "delegated" \in DOMAIN result /\ result.delegated
    /\ iteration = 1
    /\ ~ToolRequest.found
    /\ result.response = resp
    /\ Len(conversation_history) = 6
    /\ conversation_history[3].content.specialist_response = specialist_response

\* C28: _execute_tool calls a registered tool only: a request that names
\* anything else is answered with the 'not found' error and calls nothing.
C28_OnlyRegisteredCalled ==
    (bpc = "check" /\ ToolRequest.found) =>
        LET name == Get(ToolRequest.obj, "tool")
        IN  (name.t # "str" \/ name.v \notin RegisteredTools) =>
                /\ ~ToolOutcome.raises
                /\ ToolOutcome.value[1] = "error"
                /\ ToolOutcome.value[2] = "Tool '"
                /\ ToolOutcome.value[Len(ToolOutcome.value)] = "' not found"

\* user and assistant messages take turns in h, the first is a user message
Alternates(h) ==
    /\ h # <<>> => h[1].role = "user"
    /\ \A i \in 1..(Len(h) - 1) : h[i].role # h[i + 1].role

\* C29: when BaseAgent.chat has returned, the agent's history ends with an
\* assistant message, and in every history user and assistant messages
\* take turns, so that the next chat never adds a second user message in a
\* row.
C29_HistoryAlternates ==
    /\ bpc = "return" => Hist[Len(Hist)].role = "assistant"
    /\ raised = "none" =>
          /\ Alternates(conversation_history)
          /\ \A t \in DOMAIN specialized_agents :
                Alternates(specialized_agents[t])

\* ======================================================================
\* Properties of whole turns in the session stores (SpecStore)
\* ======================================================================

\* new is a tail of old followed by the turn's user message and its reply.
AddsPair(old, new) ==
    LET n == NextOrd(old)
        pair == << [role |-> "user", content |-> n],
                   [role |-> "assistant", content |-> n] >>
    IN  \E k \in 0..Len(old) : new = SubSeq(old, k + 1, Len(old)) \o pair

\* C22: a completed turn adds exactly one user message and one assistant
\* message to the stored session of its channel.
C22_TurnAddsOnePair ==
    [][/\ \A p \in Phones :
             (sms_history'[p] # sms_history[p] /\ sms_history'[p] # <<>>) =>
                 AddsPair(sms_history[p], sms_history'[p])
       /\ \A u \in Uids :
             (user_histories'[u] # user_histories[u]
                 /\ user_histories'[u] # <<>>) =>
                 AddsPair(user_histories[u], user_histories'[u])
      ]_vars

\* C23: after every completed Telegram turn the user's stored history ends
\* with the turn's user message followed by the turn's reply.
C23_TelegramEndsWithTurn ==
    \A u \in Uids :
        LET h == user_histories[u]
        IN  h # <<>> =>
                /\ Len(h) >= 2
                /\ h[Len(h)].role = "assistant"
                /\ h[Len(h) - 1].role = "user"
                /\ h[Len(h) - 1].content = h[Len(h)].content

\* C24: a truncation drops whole pairs: the stored histories and the list
\* given to the provider start with a user message and user and assistant
\* messages take turns.
C24_TruncationKeepsPairs ==
    /\ \A p \in Phones : Alternates(sms_history[p])
    /\ \A u \in Uids : Alternates(user_histories[u])
    /\ Alternates(sent)
====
